---------------------------- MODULE Spec2Model ----------------------------
(***************************************************************************)
(* Model of src/main.rs: the three Update systems mouse_look,             *)
(* apply_controls and apply_oxr_controls, the CameraControl orientation   *)
(* they share through the camera Transform, and the calls they make on    *)
(* the TnuaController (basis / action).                                    *)
(*                                                                         *)
(* Angles are integers in hundredths of a degree.  Vector components are   *)
(* exact numbers of the field Q(sqrt 2), written <<p, q, d>> for           *)
(* (p + q*sqrt2)/d, which holds the sines and cosines of every multiple of *)
(* 45 degrees.  A vector or quaternion whose components are NaN is the     *)
(* empty tuple NaN.                                                        *)
(***************************************************************************)
EXTENDS Integers, Sequences, FiniteSets, TLC

(* ------------------------------ bounds -------------------------------- *)
\* most MouseMotion events read by one run of mouse_look
MaxEvents == 2
\* most keys held at once
MaxKeys == 2
\* |yaw| is kept within this many hundredths of a degree
MaxYaw == 18000

(* ------------------------- program constants -------------------------- *)
\* MouseSettings.sensitivity 0.04 degrees per count = 4 hundredths
sensitivity == 4
\* MouseSettings.pitch_limit 90.0 degrees
pitch_limit == 9000
\* the factor 5.0 of desired_velocity
max_speed == 5
\* float_height 1.1, in tenths
float_height == 11
\* TnuaBuiltinJump.height 2.0
jump_height == 2

(* ----------------------- exact numbers Q(sqrt 2) ---------------------- *)
Abs(n) == IF n < 0 THEN -n ELSE n

RECURSIVE Gcd(_, _)
Gcd(a, b) == IF b = 0 THEN a ELSE Gcd(b, a % b)

Norm(p, q, d) ==
    LET s == IF d < 0 THEN -1 ELSE 1
        g == Gcd(Gcd(Abs(p), Abs(q)), Abs(d))
    IN  <<(s * p) \div g, (s * q) \div g, (s * d) \div g>>

Num(n) == <<n, 0, 1>>
Zero == Num(0)
One == Num(1)
Sqrt2Half == <<0, 1, 2>>

Add(a, b) == Norm(a[1] * b[3] + b[1] * a[3], a[2] * b[3] + b[2] * a[3], a[3] * b[3])
Neg(a) == <<-a[1], -a[2], a[3]>>
Sub(a, b) == Add(a, Neg(b))
Mul(a, b) == Norm(a[1] * b[1] + 2 * a[2] * b[2], a[1] * b[2] + a[2] * b[1], a[3] * b[3])
\* 1/(p + q*sqrt2) = (p - q*sqrt2)/(p^2 - 2q^2)
Inv(a) == Norm(a[3] * a[1], -(a[3] * a[2]), a[1] * a[1] - 2 * a[2] * a[2])
Div(a, b) == Mul(a, Inv(b))

\* sign of p + q*sqrt2 (d > 0)
Sign(a) ==
    LET p == a[1]
        q == a[2]
    IN  IF p = 0 /\ q = 0 THEN 0
        ELSE IF p >= 0 /\ q >= 0 THEN 1
        ELSE IF p <= 0 /\ q <= 0 THEN -1
        ELSE IF p > 0 THEN (IF p * p > 2 * q * q THEN 1 ELSE -1)
        ELSE (IF 2 * q * q > p * p THEN 1 ELSE -1)

\* the square roots the vectors of the model have
Roots == {Zero, <<1, 0, 2>>, Sqrt2Half, One, <<0, 1, 1>>, Num(2)}
Sqrt(a) == CHOOSE r \in Roots : Mul(r, r) = a

(* --------------------------- trigonometry ----------------------------- *)
\* sine of the 8 multiples of 45 degrees
SinTable == <<Zero, Sqrt2Half, One, Sqrt2Half, Zero, Neg(Sqrt2Half), Neg(One), Neg(Sqrt2Half)>>
Sin(a) == SinTable[((a % 36000) \div 4500) + 1]
Cos(a) == Sin(a + 9000)
\* f32::acos: the angle in [0, 180] degrees with the given cosine
Acos(c) == CHOOSE a \in {0, 4500, 9000, 13500, 18000} : Cos(a) = c

(* ------------------------------ Vec3 ---------------------------------- *)
NaN == <<>>
Vec3(x, y, z) == <<Num(x), Num(y), Num(z)>>
VecZero == Vec3(0, 0, 0)
VecX == Vec3(1, 0, 0)
VecZ == Vec3(0, 0, 1)
VecNegZ == Vec3(0, 0, -1)

VAdd(u, v) == <<Add(u[1], v[1]), Add(u[2], v[2]), Add(u[3], v[3])>>
VSub(u, v) == <<Sub(u[1], v[1]), Sub(u[2], v[2]), Sub(u[3], v[3])>>
\* NaN * s = NaN
VScale(v, s) == IF v = NaN THEN NaN ELSE <<Mul(v[1], s), Mul(v[2], s), Mul(v[3], s)>>
Dot(u, v) == Add(Add(Mul(u[1], v[1]), Mul(u[2], v[2])), Mul(u[3], v[3]))
\* the y component of u x v
CrossY(u, v) == Sub(Mul(u[3], v[1]), Mul(u[1], v[3]))
LengthSquared(v) == Dot(v, v)
Length(v) == Sqrt(LengthSquared(v))
WithY0(v) == <<v[1], Zero, v[3]>>
\* Vec3::normalize: v * (1/length); the zero vector gives 0 * inf = NaN
Normalize(v) == IF Length(v) = Zero THEN NaN ELSE VScale(v, Inv(Length(v)))
\* Vec3::normalize_or_zero
NormalizeOrZero(v) == IF Length(v) = Zero THEN VecZero ELSE VScale(v, Inv(Length(v)))

(* ------------------------------ Quat ---------------------------------- *)
\* The rotations of the program are Ry(y) * Rx(x); a Quat is <<y, x>>.
QuatYX(yawDeg, pitchDeg) == <<yawDeg, pitchDeg>>
QuatIdentity == QuatYX(0, 0)
FromRotationY(a) == QuatYX(a, 0)
RotX(a, v) ==
    <<v[1], Sub(Mul(v[2], Cos(a)), Mul(v[3], Sin(a))), Add(Mul(v[2], Sin(a)), Mul(v[3], Cos(a)))>>
RotY(a, v) ==
    <<Add(Mul(v[1], Cos(a)), Mul(v[3], Sin(a))), v[2], Sub(Mul(v[3], Cos(a)), Mul(v[1], Sin(a)))>>
\* Quat * Vec3; a NaN quaternion gives NaN even for the zero vector
MulVec3(q, v) == IF q = NaN THEN NaN ELSE RotY(q[1], RotX(q[2], v))
\* Transform::forward
Forward(q) == MulVec3(q, VecNegZ)

(* ---------------------------- the inputs ------------------------------ *)
\* the KeyCodes apply_controls asks about
KeyCodes ==
    {"ArrowUp", "KeyW", "ArrowDown", "KeyS", "ArrowLeft", "KeyA", "ArrowRight", "KeyD", "Space"}
KeySets(n) == {ks \in SUBSET KeyCodes : Cardinality(ks) <= n}

\* MouseMotion.delta <<x, y>> in counts; 1125 counts turn 45 degrees
Deltas ==
    {<<1125, 0>>, <<-1125, 0>>, <<0, 1125>>, <<0, -1125>>, <<1125, -2250>>, <<-1125, 2250>>}
RECURSIVE EventSeqs(_)
EventSeqs(n) ==
    IF n = 0 THEN {<<>>}
    ELSE EventSeqs(n - 1) \cup {Append(es, d) : es \in {e \in EventSeqs(n - 1) : Len(e) = n - 1}, d \in Deltas}

\* XRUtilsActionState of the flight_input action; none before an XR session syncs it
ActionStates ==
    {[type |-> "Bool", current_state |-> <<0, 0>>],
     [type |-> "Float", current_state |-> <<0, 0>>],
     [type |-> "Vector", current_state |-> <<0, 0>>],
     [type |-> "Vector", current_state |-> <<0, 1>>],
     [type |-> "Vector", current_state |-> <<1, 0>>]}
\* OxrViews: the orientation of each view pose
ViewLists == {<<>>, <<QuatIdentity>>, <<QuatYX(9000, 4500)>>}
\* desktop: no action state, no view
NoXr == {[action_states |-> <<>>, views |-> <<>>]}
XrInputs ==
    NoXr \cup {[action_states |-> <<a>>, views |-> v] : a \in ActionStates, v \in ViewLists}

(* ------------------------------ state --------------------------------- *)
VARIABLES
    control,        \* CameraControl {pitch, yaw} of the camera entity
    rotation,       \* Transform.rotation of the camera entity
    camera,         \* the entity with CameraControl exists
    character,      \* the entity with TnuaController exists
    keyboard,       \* ButtonInput<KeyCode>: the pressed keys
    motion_events,  \* Events<MouseMotion>: the events mouse_look's reader gets in this frame
    action_states,  \* XRUtilsActionState of the entities with FlightActionMarker
    views,          \* OxrViews
    ran,            \* the Update systems that have run in this frame
    basis_calls,    \* this frame's TnuaController::basis calls
    action_calls,   \* this frame's TnuaController::action calls
    look_start,     \* history: the CameraControl mouse_look found in this frame
    skipped         \* history: an entity was missing in the frame before this one

vars ==
    <<control, rotation, camera, character, keyboard, motion_events, action_states, views,
      ran, basis_calls, action_calls, look_start, skipped>>

Systems == {"apply_controls", "mouse_look", "apply_oxr_controls"}
FrameDone == ran = Systems

(* ---------------------------- mouse_look ------------------------------ *)
Clamp(v, lo, hi) == IF v < lo THEN lo ELSE IF v > hi THEN hi ELSE v

\* mutant: the pitch is not clamped
LookEventNoClamp(c, delta) ==
    [yaw |-> c.yaw - delta[1] * sensitivity,
     pitch |-> c.pitch - delta[2] * sensitivity]

\* mutant: the yaw turns the other way
LookEventYawAdds(c, delta) ==
    [yaw |-> c.yaw + delta[1] * sensitivity,
     pitch |-> Clamp(c.pitch - delta[2] * sensitivity, -pitch_limit, pitch_limit)]

\* the body of the event loop: one MouseMotion event
LookEvent(c, delta) ==
    [yaw |-> c.yaw - delta[1] * sensitivity,
     pitch |-> Clamp(c.pitch - delta[2] * sensitivity, -pitch_limit, pitch_limit)]

RECURSIVE LookAll(_, _)
LookAll(c, events) ==
    IF events = <<>> THEN c ELSE LookAll(LookEvent(c, Head(events)), Tail(events))

\* yaw is a float without a bound; the model keeps it within MaxYaw
RECURSIVE YawInRange(_, _)
YawInRange(c, events) ==
    /\ Abs(c.yaw) <= MaxYaw
    /\ events # <<>> =>
          YawInRange([c EXCEPT !.yaw = @ - Head(events)[1] * sensitivity], Tail(events))

MouseLook ==
    /\ "mouse_look" \notin ran
    /\ ran' = ran \cup {"mouse_look"}
    /\ IF camera
       THEN /\ control' = LookAll(control, motion_events)
            /\ rotation' = IF motion_events = <<>> THEN rotation
                           ELSE QuatYX(control'.yaw, control'.pitch)
       ELSE UNCHANGED <<control, rotation>>
    /\ look_start' = control
    /\ UNCHANGED <<camera, character, keyboard, motion_events, action_states, views,
                   basis_calls, action_calls, skipped>>

(* -------------------------- apply_controls ---------------------------- *)
Pressed(k) == k \in keyboard

Movement(keys) ==
    LET m0 == VecZero
        m1 == IF "ArrowUp" \in keys \/ "KeyW" \in keys THEN VAdd(m0, VecZ) ELSE m0
        m2 == IF "ArrowDown" \in keys \/ "KeyS" \in keys THEN VSub(m1, VecZ) ELSE m1
        m3 == IF "ArrowLeft" \in keys \/ "KeyA" \in keys THEN VAdd(m2, VecX) ELSE m2
        m4 == IF "ArrowRight" \in keys \/ "KeyD" \in keys THEN VSub(m3, VecX) ELSE m3
    IN  m4

\* forward.with_y(0.0).normalize()
HorizontalForward(q) == Normalize(WithY0(Forward(q)))

\* Vec3::angle_between of two unit vectors
AngleBetween(u, v) == Acos(Div(Dot(u, v), Sqrt(Mul(LengthSquared(u), LengthSquared(v)))))

\* mutant: the angle is used without the sign the cross product selects
BasisRotationUnsigned(forward) ==
    IF forward = NaN THEN NaN ELSE FromRotationY(AngleBetween(forward, VecZ))

\* the quaternion that turns the movement; a NaN forward gives a NaN angle, the
\* comparison with it is false and from_rotation_y(NaN) is a NaN quaternion
BasisRotation(forward) ==
    IF forward = NaN THEN NaN
    ELSE LET angle == AngleBetween(forward, VecZ)
         IN  IF Sign(CrossY(forward, VecZ)) > 0
             THEN FromRotationY(-angle)
             ELSE FromRotationY(angle)

WalkVelocity(q, keys) ==
    VScale(MulVec3(BasisRotation(HorizontalForward(q)), Movement(keys)), Num(max_speed))

\* mutant: the camera query is not asked
ControlsEntitiesCharacterOnly == character

\* both get_single_mut calls succeed
ControlsEntities == character /\ camera

\* mutant: the jump is fed only while no movement key is held
JumpHeldStanding == Pressed("Space") /\ Movement(keyboard) = VecZero

\* keyboard.pressed(KeyCode::Space)
JumpHeld == Pressed("Space")

ApplyControls ==
    /\ "apply_controls" \notin ran
    /\ ran' = ran \cup {"apply_controls"}
    /\ IF ControlsEntities
       THEN /\ basis_calls' =
                Append(basis_calls,
                       [system |-> "apply_controls",
                        desired_velocity |-> WalkVelocity(rotation, keyboard),
                        float_height |-> float_height])
            /\ action_calls' =
                IF JumpHeld
                THEN Append(action_calls, [system |-> "apply_controls", height |-> jump_height])
                ELSE action_calls
       ELSE UNCHANGED <<basis_calls, action_calls>>
    /\ UNCHANGED <<control, rotation, camera, character, keyboard, motion_events,
                   action_states, views, look_start, skipped>>

(* ------------------------ apply_oxr_controls -------------------------- *)
OxrVelocity(q, stick) ==
    LET input_vector == Vec3(stick[1], 0, -stick[2])
        locomotion_vector == MulVec3(q, input_vector)
        movement == VScale(NormalizeOrZero(WithY0(locomotion_vector)), Length(input_vector))
    IN  VScale(movement, Num(max_speed))

\* the loop over the action states: the basis calls it makes until it ends or returns
RECURSIVE OxrLoop(_, _)
OxrLoop(states, calls) ==
    IF states = <<>> THEN calls
    ELSE IF Head(states).type # "Vector" THEN OxrLoop(Tail(states), calls)
    ELSE IF views = <<>> THEN calls
    ELSE OxrLoop(Tail(states),
                 Append(calls,
                        [system |-> "apply_oxr_controls",
                         desired_velocity |-> OxrVelocity(Head(views), Head(states).current_state),
                         float_height |-> float_height]))

ApplyOxrControls ==
    /\ "apply_oxr_controls" \notin ran
    /\ ran' = ran \cup {"apply_oxr_controls"}
    /\ basis_calls' = IF character THEN OxrLoop(action_states, basis_calls) ELSE basis_calls
    /\ UNCHANGED <<control, rotation, camera, character, keyboard, motion_events,
                   action_states, views, action_calls, look_start, skipped>>

(* ------------------------------ frames -------------------------------- *)
\* The start of a frame: input sampling.  The world outside the three systems
\* may have despawned or spawned the two entities since the last frame; a
\* spawned camera has a default CameraControl and Transform.
BeginFrame(keysets, eventseqs, xrinputs, entities) ==
    /\ FrameDone
    /\ ran' = {}
    /\ basis_calls' = <<>>
    /\ action_calls' = <<>>
    /\ keyboard' \in keysets
    /\ \E e \in entities :
          /\ camera' = e[1]
          /\ character' = e[2]
    /\ IF camera' # camera
       THEN /\ control' = [yaw |-> 0, pitch |-> 0]
            /\ rotation' = QuatIdentity
       ELSE UNCHANGED <<control, rotation>>
    /\ motion_events' \in {es \in eventseqs : YawInRange(control', es)}
    /\ \E xr \in xrinputs :
          /\ action_states' = xr.action_states
          /\ views' = xr.views
    /\ look_start' = control'
    /\ skipped' = ~ControlsEntities

\* after Startup: setup has spawned the camera and the character
InitOf(keysets, eventseqs, xrinputs) ==
    /\ control = [yaw |-> 0, pitch |-> 0]
    /\ rotation = QuatIdentity
    /\ camera = TRUE
    /\ character = TRUE
    /\ keyboard \in keysets
    /\ motion_events \in eventseqs
    /\ \E xr \in xrinputs :
          /\ action_states = xr.action_states
          /\ views = xr.views
    /\ ran = {}
    /\ basis_calls = <<>>
    /\ action_calls = <<>>
    /\ look_start = control
    /\ skipped = FALSE

\* nothing in main.rs removes the entities setup has spawned
Present == {<<TRUE, TRUE>>}

Update == ApplyControls \/ MouseLook \/ ApplyOxrControls

\* the desktop: keyboard and mouse, one event a frame
Init == InitOf(KeySets(MaxKeys), EventSeqs(1), NoXr)
Frame == BeginFrame(KeySets(MaxKeys), EventSeqs(1), NoXr, Present)
Next == Frame \/ Update
Spec == Init /\ [][Next]_vars

\* the look controller: any events, no keys
InitLook == InitOf({{}}, EventSeqs(MaxEvents), NoXr)
FrameLook == BeginFrame({{}}, EventSeqs(MaxEvents), NoXr, Present)
NextLook == FrameLook \/ Update
SpecLook == InitLook /\ [][NextLook]_vars

\* the headset: any action state and view list, one key
InitXr == InitOf(KeySets(1), {<<>>}, XrInputs)
FrameXr == BeginFrame(KeySets(1), {<<>>}, XrInputs, Present)
NextXr == FrameXr \/ Update
SpecXr == InitXr /\ [][NextXr]_vars

\* entities that come and go: one key, one event, the desktop or one stick state
EnvXr == NoXr \cup {[action_states |-> <<[type |-> "Vector", current_state |-> <<0, 1>>]>>,
                     views |-> <<QuatIdentity>>]}
InitEnv == InitOf(KeySets(1), EventSeqs(1), EnvXr)
FrameEnv == BeginFrame(KeySets(1), EventSeqs(1), EnvXr, BOOLEAN \X BOOLEAN)
NextEnv == FrameEnv \/ Update
SpecEnv == InitEnv /\ [][NextEnv]_vars

(* ------------------------------ claims -------------------------------- *)
FlatCalls == SelectSeq(basis_calls, LAMBDA c : c.system = "apply_controls")
OxrCalls == SelectSeq(basis_calls, LAMBDA c : c.system = "apply_oxr_controls")
LookRan == "mouse_look" \in ran
ControlsRan == "apply_controls" \in ran

\* C1: whatever mouse events mouse_look has processed, the stored pitch lies
\* within [-pitch_limit, +pitch_limit].
C1_PitchWithinLimit == -pitch_limit <= control.pitch /\ control.pitch <= pitch_limit

\* a frame whose events, unclamped, would have carried the pitch past the limit
C1_Witness ==
    /\ LookRan
    /\ Len(motion_events) = 2
    /\ look_start.pitch - (motion_events[1][2] + motion_events[2][2]) * sensitivity > pitch_limit
    /\ control.pitch = pitch_limit

\* C2: in a finished frame the flat camera (apply_controls) and the headset
\* (apply_oxr_controls) have not both fed a walk basis to the controller.
C2_OneSourcePerFrame == FrameDone => ~(FlatCalls # <<>> /\ OxrCalls # <<>>)

\* C3: in headset mode (an action state is synced), a frame without a view
\* pose ends with no call at all on the controller.
C3_NoViewNoCall ==
    (FrameDone /\ action_states # <<>> /\ views = <<>>) =>
        (basis_calls = <<>> /\ action_calls = <<>>)

\* C4: in a finished frame with both entities, apply_controls has made exactly
\* one basis call, with float_height 1.1, and with no net movement key its
\* desired_velocity is the zero vector.
C4_WalkEveryFrame ==
    (FrameDone /\ character /\ camera) =>
        /\ Len(FlatCalls) = 1
        /\ FlatCalls[1].float_height = 11
        /\ Movement(keyboard) = VecZero => FlatCalls[1].desired_velocity = VecZero

\* C5: a finished frame holds one jump action of height 2.0 if Space is held
\* in it and none if it is not.
C5_JumpWhileHeld ==
    FrameDone =>
        /\ Len(action_calls) = (IF "Space" \in keyboard THEN 1 ELSE 0)
        /\ \A i \in 1..Len(action_calls) : action_calls[i].height = 2

C5_Witness == FrameDone /\ "Space" \in keyboard /\ Len(action_calls) = 1

\* C6: mouse_look runs before apply_controls in every frame, so the walk
\* command of a finished frame is the one computed from the orientation that
\* holds the frame's mouse delta.
C6_LookBeforeControls ==
    /\ ControlsRan => LookRan
    /\ FrameDone =>
          \A i \in 1..Len(FlatCalls) :
              FlatCalls[i].desired_velocity = WalkVelocity(rotation, keyboard)

\* the frame's accumulated mouse delta
RECURSIVE SumDelta(_)
SumDelta(events) ==
    IF events = <<>> THEN <<0, 0>>
    ELSE <<Head(events)[1] + SumDelta(Tail(events))[1], Head(events)[2] + SumDelta(Tail(events))[2]>>

\* the contract of the look controller, applied once to a delta
ContractLook(c, delta) ==
    [yaw |-> c.yaw - delta[1] * 4,
     pitch |-> IF c.pitch - delta[2] * 4 < -9000 THEN -9000
               ELSE IF c.pitch - delta[2] * 4 > 9000 THEN 9000
               ELSE c.pitch - delta[2] * 4]

\* no event but the last carries the pitch past a limit
RECURSIVE NoEarlyClamp(_, _)
NoEarlyClamp(pitch, events) ==
    \/ Len(events) <= 1
    \/ /\ Abs(pitch - Head(events)[2] * 4) <= 9000
       /\ NoEarlyClamp(pitch - Head(events)[2] * 4, Tail(events))

\* C7 as stated: after mouse_look the orientation is the contract formula
\* applied once to the frame's accumulated delta, however the delta is split.
C7_AccumulatedDelta ==
    (LookRan /\ camera) => control = ContractLook(look_start, SumDelta(motion_events))

\* C7 amended: the yaw is the accumulated formula for every split; the pitch is
\* when no event before the last carries the pitch past a limit.
C7_AccumulatedUnlessClamped ==
    (LookRan /\ camera) =>
        /\ control.yaw = ContractLook(look_start, SumDelta(motion_events)).yaw
        /\ NoEarlyClamp(look_start.pitch, motion_events) =>
              control = ContractLook(look_start, SumDelta(motion_events))

\* two events, the second clamped, the first not
C7_Witness ==
    /\ LookRan
    /\ Len(motion_events) = 2
    /\ NoEarlyClamp(look_start.pitch, motion_events)
    /\ Abs(look_start.pitch - SumDelta(motion_events)[2] * 4) > 9000
    /\ control.yaw # look_start.yaw

\* C8: with only a forward key held and a camera whose forward has a horizontal
\* direction, the velocity apply_controls emits is that direction times 5.0
\* (read before mouse_look turns the camera again).
C8_ForwardKeyFollowsCamera ==
    (ControlsRan /\ ~LookRan /\ Movement(keyboard) = VecZ
        /\ WithY0(Forward(rotation)) # VecZero) =>
        /\ Len(FlatCalls) = 1
        /\ FlatCalls[1].desired_velocity =
              VScale(VScale(WithY0(Forward(rotation)), Inv(Length(WithY0(Forward(rotation))))),
                     Num(5))

\* forward on the side of +Z where the rotation is by -angle, off the axes
C8_Witness ==
    /\ ControlsRan /\ ~LookRan /\ Movement(keyboard) = VecZ
    /\ Sign(Forward(rotation)[1]) < 0
    /\ Sign(Forward(rotation)[3]) > 0
    /\ rotation[2] = 4500
    /\ Len(FlatCalls) = 1

\* the rotations a camera can have
CameraRotations ==
    {QuatYX(y * 4500, x * 4500) : y \in -((MaxYaw \div 4500))..(MaxYaw \div 4500), x \in -2..2}

\* C9: a frame without the character or the camera ends with no call of
\* apply_controls; a frame with both ends with one walk command, and one jump
\* if Space is held, made from that frame's keys; nothing is replayed.
C9_SkipThisFrameOnly ==
    FrameDone =>
        /\ Len(FlatCalls) = (IF character /\ camera THEN 1 ELSE 0)
        /\ Len(action_calls) = (IF character /\ camera /\ "Space" \in keyboard THEN 1 ELSE 0)
        /\ \A i \in 1..Len(FlatCalls) :
              \E q \in CameraRotations :
                  FlatCalls[i].desired_velocity = WalkVelocity(q, keyboard)

\* the frame after a skipped one, with both entities back and Space held
C9_Witness ==
    /\ FrameDone /\ skipped /\ character /\ camera
    /\ "Space" \in keyboard
    /\ Len(FlatCalls) = 1 /\ Len(action_calls) = 1

\* C10: the camera forward always has a horizontal part, so every emitted
\* desired_velocity is a vector of numbers.
C10_ForwardHasAzimuth ==
    /\ WithY0(Forward(rotation)) # VecZero
    /\ \A i \in 1..Len(FlatCalls) : FlatCalls[i].desired_velocity # NaN

=============================================================================
